---- MODULE Spec2Model ----
(***************************************************************************)
(* The MCP BigQuery server and its provisioning script:                    *)
(*   mcp_bigquery/config.py  Settings, get_settings                        *)
(*   mcp_bigquery/auth.py    extract_bearer_token, validate_bearer_token,  *)
(*                           authenticate_request, require_auth,           *)
(*                           get_auth_error_response                       *)
(*   mcp_bigquery/server.py  the settings load at package import, and the  *)
(*                           five tools                                    *)
(*   mcp_bigquery/bigquery_client.py  BigQueryClient, get_bigquery_client  *)
(*   scripts/generate_jwt_token.py    generate_keys, generate_token        *)
(*                                                                         *)
(* A Python str is a sequence of one-character strings.  An Optional[str]  *)
(* is a record [some, str]; None is the record with some = FALSE.          *)
(***************************************************************************)
EXTENDS Integers, Sequences, FiniteSets, TLC

VARIABLES
    env,        \* the process environment the settings are read from
    _settings,  \* config.py: the module-level cached Settings instance
    phase,      \* the package import: "importing", "serving", "import_failed";
                \* "script" when the process is a run of generate_jwt_token.py
    call,       \* the last call made into auth.py and what came of it
    instances,  \* the Settings instances made so far, and which one is cached
    handlers,   \* the request handlers in get_settings(), each at its place
    _client,    \* bigquery_client.py: the module-level cached BigQueryClient
    tool,       \* the last call of a server tool and what came of it
    script      \* the run of a generate_jwt_token.py command

vars == <<env, _settings, phase, call, instances, handlers, _client, tool, script>>

(***************************************************************************)
(* Bounds of the model.                                                    *)
(***************************************************************************)
\* The most whitespace-separated segments a presented header is built from.
MaxSegments == 3

\* The most characters of a --scopes value.
MaxScopeChars == 3

\* The number of concurrent request handlers.
NumHandlers == 2

(***************************************************************************)
(* Python values.                                                          *)
(***************************************************************************)
None == [some |-> FALSE, str |-> <<>>]

Some(s) == [some |-> TRUE, str |-> s]

\* Python truthiness of an Optional[str]: None and "" are falsy.
Truthy(o) == o.some /\ o.str # <<>>

NoExc == "no exception"

UpperCase == <<"A", "B", "C", "D", "E", "F", "G", "H", "I", "J", "K", "L", "M",
               "N", "O", "P", "Q", "R", "S", "T", "U", "V", "W", "X", "Y", "Z">>

LowerCase == <<"a", "b", "c", "d", "e", "f", "g", "h", "i", "j", "k", "l", "m",
               "n", "o", "p", "q", "r", "s", "t", "u", "v", "w", "x", "y", "z">>

\* The characters str.split() treats as separators, among those of the model.
Whitespace == {" ", "\t"}

\* str.lower(), one character.
LowerChar(c) ==
    IF \E i \in 1..26 : UpperCase[i] = c
    THEN LowerCase[CHOOSE i \in 1..26 : UpperCase[i] = c]
    ELSE c

\* str.lower()
lower(s) == [i \in 1..Len(s) |-> LowerChar(s[i])]

\* Whether a scan for whitespace (space = TRUE) or for anything else
\* (space = FALSE) stops at index j of s: at such a character, or past the end.
ScanStop(s, j, space) == j = Len(s) + 1 \/ ((s[j] \in Whitespace) = space)

\* The first index from i on where the scan stops.
Scan(s, i, space) ==
    CHOOSE j \in i..(Len(s) + 1) :
        ScanStop(s, j, space) /\ \A m \in i..(j - 1) : ~ScanStop(s, m, space)

\* str.split() without arguments, as CPython scans: skip whitespace
\* (SplitFrom), stop at the end or find where the part ends (SplitAt), take
\* the part and go on behind it (SplitTake).  Leading and trailing whitespace
\* gives no empty part.
RECURSIVE SplitFrom(_, _, _), SplitAt(_, _, _), SplitTake(_, _, _, _)
SplitFrom(s, i, acc) == SplitAt(s, Scan(s, i, FALSE), acc)

SplitAt(s, j, acc) ==
    IF j > Len(s) THEN acc ELSE SplitTake(s, j, Scan(s, j, TRUE), acc)

SplitTake(s, j, k, acc) == SplitFrom(s, k, Append(acc, SubSeq(s, j, k - 1)))

split(s) == SplitFrom(s, 1, <<>>)

(***************************************************************************)
(* config.py                                                               *)
(***************************************************************************)
\* Field(min_length=32) of Settings.bearer_token, and the validator's bound.
MinBearerLength == 32

\* The example value the validator refuses.
Placeholder ==
    <<"y", "o", "u", "r", "-", "s", "e", "c", "u", "r", "e", "-", "b", "e", "a",
      "r", "e", "r", "-", "t", "o", "k", "e", "n", "-", "h", "e", "r", "e", "-",
      "a", "t", "-", "l", "e", "a", "s", "t", "-", "3", "2", "-", "c", "h", "a",
      "r", "a", "c", "t", "e", "r", "s">>

\* A bearer_token that only has to be given.
SettingsBearerValid_given(v) == v.some

\* Settings.validate_bearer_token with the field's min_length: the value is
\* required, at least 32 characters long and not the example value.
SettingsBearerValid(v) ==
    /\ v.some
    /\ Len(v.str) >= MinBearerLength
    /\ v.str # Placeholder

\* Settings.validate_credentials_file: the path exists, is a file, ends .json.
CredentialsValid(c) == c = "file.json"

\* Settings(): the instance, or pydantic's ValidationError.  Of the instance
\* the model keeps bearer_token, the one field auth.py reads.
Settings(e) ==
    IF SettingsBearerValid(e.BEARER_TOKEN) /\ CredentialsValid(e.GOOGLE_APPLICATION_CREDENTIALS)
    THEN [raised |-> NoExc,
          value  |-> [loaded |-> TRUE, bearer_token |-> e.BEARER_TOKEN.str]]
    ELSE [raised |-> "ValidationError",
          value  |-> [loaded |-> FALSE, bearer_token |-> <<>>]]

\* _settings = None
NoSettings == [loaded |-> FALSE, bearer_token |-> <<>>]

\* get_settings(): constructs the instance when none is cached; a failed
\* construction raises and leaves the cache unset.
get_settings(cache, e) ==
    IF ~cache.loaded
    THEN LET s == Settings(e) IN
         [raised |-> s.raised, value |-> s.value, cache |-> s.value]
    ELSE [raised |-> NoExc, value |-> cache, cache |-> cache]

(***************************************************************************)
(* auth.py                                                                 *)
(***************************************************************************)
\* The scheme extract_bearer_token compares the lower-cased first part with.
BearerScheme == <<"b", "e", "a", "r", "e", "r">>

\* AuthenticationError("Invalid or missing bearer token")
AuthFailureMessage == "Invalid or missing bearer token"

\* The tuple assignment  scheme, token = parts : Python raises ValueError
\* unless parts holds exactly two values.
Unpack2(parts) == IF Len(parts) = 2 THEN NoExc ELSE "ValueError"

\* extract_bearer_token without its length test: the tuple assignment then
\* meets lists of one or three parts.
extract_bearer_token_unguarded(auth_header) ==
    IF ~Truthy(auth_header)
    THEN [raised |-> NoExc, token |-> None]
    ELSE LET parts == split(auth_header.str) IN
         IF Unpack2(parts) # NoExc
         THEN [raised |-> Unpack2(parts), token |-> None]
         ELSE IF lower(parts[1]) # BearerScheme
              THEN [raised |-> NoExc, token |-> None]
              ELSE [raised |-> NoExc, token |-> Some(parts[2])]

\* extract_bearer_token comparing the scheme as written, without lower().
extract_bearer_token_case_sensitive(auth_header) ==
    IF ~Truthy(auth_header)
    THEN [raised |-> NoExc, token |-> None]
    ELSE LET parts == split(auth_header.str) IN
         IF Len(parts) # 2
         THEN [raised |-> NoExc, token |-> None]
         ELSE IF parts[1] # <<"B", "e", "a", "r", "e", "r">>
              THEN [raised |-> NoExc, token |-> None]
              ELSE [raised |-> NoExc, token |-> Some(parts[2])]

\* extract_bearer_token(auth_header)
extract_bearer_token(auth_header) ==
    IF ~Truthy(auth_header)
    THEN [raised |-> NoExc, token |-> None]
    ELSE LET parts == split(auth_header.str) IN
         IF Len(parts) # 2
         THEN [raised |-> NoExc, token |-> None]
         ELSE IF Unpack2(parts) # NoExc
              THEN [raised |-> Unpack2(parts), token |-> None]
              ELSE IF lower(parts[1]) # BearerScheme
                   THEN [raised |-> NoExc, token |-> None]
                   ELSE [raised |-> NoExc, token |-> Some(parts[2])]

\* validate_bearer_token dropping the cached settings once it has compared.
validate_bearer_token_clearing(token, cache, e) ==
    IF ~Truthy(token)
    THEN [raised |-> NoExc, ok |-> FALSE, cache |-> cache,
          log |-> <<"WARNING Authentication attempt with missing token">>]
    ELSE LET g == get_settings(cache, e) IN
         IF g.raised # NoExc
         THEN [raised |-> g.raised, ok |-> FALSE, cache |-> g.cache, log |-> <<>>]
         ELSE [raised |-> NoExc, ok |-> token.str = g.value.bearer_token,
               cache |-> NoSettings, log |-> <<>>]

\* validate_bearer_token(token), reading the settings through get_settings.
validate_bearer_token(token, cache, e) ==
    IF ~Truthy(token)
    THEN [raised |-> NoExc, ok |-> FALSE, cache |-> cache,
          log |-> <<"WARNING Authentication attempt with missing token">>]
    ELSE LET g == get_settings(cache, e) IN
         IF g.raised # NoExc
         THEN [raised |-> g.raised, ok |-> FALSE, cache |-> g.cache, log |-> <<>>]
         ELSE LET is_valid == token.str = g.value.bearer_token IN
              [raised |-> NoExc, ok |-> is_valid, cache |-> g.cache,
               log |-> IF is_valid
                       THEN <<"INFO Authentication successful">>
                       ELSE <<"WARNING Authentication failed: Invalid bearer token">>]

\* authenticate_request telling a missing token from a wrong one in its message.
authenticate_request_telling(auth_header, cache, e) ==
    LET x == extract_bearer_token(auth_header) IN
    LET v == validate_bearer_token(x.token, cache, e) IN
    IF v.raised # NoExc
    THEN [raised |-> v.raised, message |-> "", ok |-> FALSE,
          cache |-> v.cache, log |-> v.log]
    ELSE IF ~v.ok
         THEN [raised |-> "AuthenticationError",
               message |-> IF Truthy(x.token) THEN "Invalid bearer token"
                                              ELSE "Missing bearer token",
               ok |-> FALSE, cache |-> v.cache, log |-> v.log]
         ELSE [raised |-> NoExc, message |-> "", ok |-> TRUE,
               cache |-> v.cache, log |-> v.log]

\* authenticate_request(auth_header)
authenticate_request(auth_header, cache, e) ==
    LET x == extract_bearer_token(auth_header) IN
    IF x.raised # NoExc
    THEN [raised |-> x.raised, message |-> "", ok |-> FALSE, cache |-> cache, log |-> <<>>]
    ELSE LET v == validate_bearer_token(x.token, cache, e) IN
         IF v.raised # NoExc
         THEN [raised |-> v.raised, message |-> "", ok |-> FALSE,
               cache |-> v.cache, log |-> v.log]
         ELSE IF ~v.ok
              THEN [raised |-> "AuthenticationError", message |-> AuthFailureMessage,
                    ok |-> FALSE, cache |-> v.cache, log |-> v.log]
              ELSE [raised |-> NoExc, message |-> "", ok |-> TRUE,
                    cache |-> v.cache, log |-> v.log]

\* get_auth_error_response(message)
get_auth_error_response(message) ==
    [error |-> [code |-> "UNAUTHORIZED", message |-> message]]

\* No structured response was produced.
NoResponse == [error |-> [code |-> "", message |-> ""]]

\* require_auth(func).wrapper(_auth_header=auth_header): the header is
\* authenticated only when it is truthy; an AuthenticationError is logged and
\* raised again; otherwise func runs.
wrapper(auth_header, cache, e) ==
    IF Truthy(auth_header)
    THEN LET a == authenticate_request(auth_header, cache, e) IN
         IF a.raised = "AuthenticationError"
         THEN [raised |-> a.raised, message |-> a.message, body_executed |-> FALSE,
               response |-> NoResponse, cache |-> a.cache,
               log |-> Append(a.log, "ERROR Authentication error in func")]
         ELSE IF a.raised # NoExc
              THEN [raised |-> a.raised, message |-> a.message, body_executed |-> FALSE,
                    response |-> NoResponse, cache |-> a.cache, log |-> a.log]
              ELSE [raised |-> NoExc, message |-> "", body_executed |-> TRUE,
                    response |-> NoResponse, cache |-> a.cache, log |-> a.log]
    ELSE [raised |-> NoExc, message |-> "", body_executed |-> TRUE,
          response |-> NoResponse, cache |-> cache, log |-> <<>>]

(***************************************************************************)
(* scripts/generate_jwt_token.py: what generate_token computes.            *)
(***************************************************************************)
\* str.strip(): the string without its leading and trailing whitespace.
RECURSIVE lstrip(_)
lstrip(s) ==
    IF s # <<>> /\ Head(s) \in Whitespace THEN lstrip(Tail(s)) ELSE s

RECURSIVE rstrip(_)
rstrip(s) ==
    IF s # <<>> /\ s[Len(s)] \in Whitespace THEN rstrip(SubSeq(s, 1, Len(s) - 1)) ELSE s

strip(s) == rstrip(lstrip(s))

\* str.split(","): the pieces between the commas, the empty ones included.
\* cur is the piece that the character at i belongs to.
RECURSIVE SplitComma(_, _, _)
SplitComma(s, i, cur) ==
    IF i > Len(s) THEN <<cur>>
    ELSE IF s[i] = "," THEN <<cur>> \o SplitComma(s, i + 1, <<>>)
    ELSE SplitComma(s, i + 1, Append(cur, s[i]))

split_comma(s) == SplitComma(s, 1, <<>>)

NonEmpty(s) == s # <<>>

Stripped(parts) == [i \in 1..Len(parts) |-> strip(parts[i])]

\* [s.strip() for s in scopes.split(",") if s.strip()]
scope_list(scopes) == SelectSeq(Stripped(split_comma(scopes)), NonEmpty)

\* The same with a flag that counts as soon as it is given, empty or not.
or_getenv_given(flag, variable) == IF flag.some THEN flag ELSE variable

\* `flag or os.getenv(NAME)`: the flag when it is truthy, else the variable.
or_getenv(flag, variable) == IF Truthy(flag) THEN flag ELSE variable

\* expires_in_seconds=3600 * 24 * 730, the lifetime generate_token asks for.
TwoYears == 63072000

\* The call key_pair.create_token(...) generate_token makes, by its arguments.
\* The same call asking for an hour.
create_token_call_hour(subject, jwt_issuer, jwt_audience, scopes) ==
    [made |-> TRUE, subject |-> subject, issuer |-> jwt_issuer.str,
     audience |-> jwt_audience.str, scopes |-> scope_list(scopes),
     expires_in_seconds |-> 3600]

create_token_call(subject, jwt_issuer, jwt_audience, scopes) ==
    [made |-> TRUE, subject |-> subject, issuer |-> jwt_issuer.str,
     audience |-> jwt_audience.str, scopes |-> scope_list(scopes),
     expires_in_seconds |-> TwoYears]

\* No call of create_token was made.
NoToken ==
    [made |-> FALSE, subject |-> "", issuer |-> <<>>, audience |-> <<>>,
     scopes |-> <<>>, expires_in_seconds |-> 0]

\* The echo calls of the script, by what they announce.  The lines of
\* generate_token up to the first step that can fail:
TokenBanner == <<"Generating JWT token using existing private key...">>

\* The lines that display the token, its details and its usage.
TokenDisplay == <<"JWT TOKEN:", "Token details:", "To use this token">>

\* The lines of generate_keys up to the first step that can fail.
KeysBanner == <<"Generating RSA key pair for JWT authentication...",
                "RSA key pair generated">>

\* What mkdir(parents=True, exist_ok=True) followed by write_text does to
\* the file, by how far the two calls get: write_text may fail before it
\* opens the file or after it has truncated it and written a part.
FileAfter(before, outcome) ==
    CASE outcome = "saved" -> "written"
      [] outcome = "mkdir failed" -> before
      [] outcome = "open failed" -> before
      [] outcome = "write failed" -> "partial"

\* raise typer.Exit(code), after the echo calls made on the way to it.
Exit(s, code, lines) ==
    [s EXCEPT !.exited = TRUE, !.exit_code = code, !.pc = "exited",
              !.out = s.out \o lines]

(***************************************************************************)
(* bigquery_client.py                                                      *)
(***************************************************************************)
\* _client = None
NoClient == [made |-> FALSE]

\* The BigQueryClient instance a successful construction yields.
TheClient == [made |-> TRUE]

\* The same with the exception of bigquery.Client(...) raised as it is.
BigQueryClientInit_unwrapped(g, construct) ==
    IF g.raised # NoExc
    THEN [raised |-> g.raised, message |-> <<"validation error">>,
          value |-> NoClient, settings |-> g.cache, attempted |-> TRUE]
    ELSE IF construct = "constructed"
    THEN [raised |-> NoExc, message |-> <<>>,
          value |-> TheClient, settings |-> g.cache, attempted |-> TRUE]
    ELSE [raised |-> construct, message |-> <<construct>>,
          value |-> NoClient, settings |-> g.cache, attempted |-> TRUE]

\* BigQueryClient() once get_settings() has ended as g: an exception of
\* get_settings() leaves __init__ as it is, and inside the try block every
\* exception of bigquery.Client(...) becomes BigQueryClientError.
BigQueryClientInit(g, construct) ==
    IF g.raised # NoExc
    THEN [raised |-> g.raised, message |-> <<"validation error">>,
          value |-> NoClient, settings |-> g.cache, attempted |-> TRUE]
    ELSE IF construct = "constructed"
    THEN [raised |-> NoExc, message |-> <<>>,
          value |-> TheClient, settings |-> g.cache, attempted |-> TRUE]
    ELSE [raised |-> "BigQueryClientError",
          message |-> <<"Failed to initialize BigQuery client: ", construct>>,
          value |-> NoClient, settings |-> g.cache, attempted |-> TRUE]

\* BigQueryClient(): get_settings() is called before the try block.
BigQueryClient(settings, e, construct) ==
    BigQueryClientInit(get_settings(settings, e), construct)

\* get_bigquery_client() constructing a client at every call.
get_bigquery_client_uncached(cache, settings, e, construct) ==
    BigQueryClient(settings, e, construct)

\* get_bigquery_client(): constructs the client when none is cached; value
\* is what _client holds afterwards, and a construction that raises leaves
\* it unset.  attempted tells whether the call ran BigQueryClient().
get_bigquery_client(cache, settings, e, construct) ==
    IF ~cache.made
    THEN BigQueryClient(settings, e, construct)
    ELSE [raised |-> NoExc, message |-> <<>>, value |-> cache, settings |-> settings,
          attempted |-> FALSE]

\* The message a method of BigQueryClient gives a GoogleCloudError.
FailedTo(method) ==
    CASE method = "execute_query" -> "Failed to execute query: "
      [] method = "list_datasets" -> "Failed to list datasets: "
      [] method = "get_dataset_info" -> "Failed to get dataset info: "
      [] method = "list_tables" -> "Failed to list tables: "
      [] method = "get_table_info" -> "Failed to get table info: "

\* What the methods return when nothing raised.
NoResult == [of |-> "none"]

\* A method of BigQueryClient: its try block returns the result, and turns a
\* GoogleCloudError and every other exception into BigQueryClientError.
client_method(method, outcome) ==
    CASE outcome = "result" ->
           [raised |-> NoExc, message |-> <<>>, result |-> [of |-> method]]
      [] outcome = "GoogleCloudError" ->
           [raised |-> "BigQueryClientError",
            message |-> <<FailedTo(method), outcome>>, result |-> NoResult]
      [] OTHER ->
           [raised |-> "BigQueryClientError",
            message |-> <<"Unexpected error: ", outcome>>, result |-> NoResult]

(***************************************************************************)
(* server.py: the tools.                                                   *)
(***************************************************************************)
\* The object a tool returns: the client's result, or {error: {code, message}}.
NoReturn == [kind |-> "none", code |-> "", message |-> <<>>, result |-> NoResult]

\* What a tool returns once get_bigquery_client() has ended as g and, when
\* it returned the client, the client's method as r: the result, or what
\* the two except clauses make of the exception caught.
tool_return(code, g, r) ==
    [raised |-> NoExc,
     returned |->
       IF g.raised = NoExc /\ r.raised = NoExc
       THEN [kind |-> "result", code |-> "", message |-> <<>>, result |-> r.result]
       ELSE IF (IF g.raised # NoExc THEN g.raised ELSE r.raised) = "BigQueryClientError"
       THEN [kind |-> "error", code |-> code,
             message |-> IF g.raised # NoExc THEN g.message ELSE r.message,
             result |-> NoResult]
       ELSE [kind |-> "error", code |-> "INTERNAL_ERROR",
             message |-> <<"Unexpected error: ">> \o
                         (IF g.raised # NoExc THEN g.message ELSE r.message),
             result |-> NoResult],
     caught |-> IF g.raised # NoExc THEN g.raised ELSE r.raised,
     obtained |-> g.raised = NoExc,
     client_result |-> IF g.raised = NoExc THEN r.result ELSE NoResult,
     attempted |-> g.attempted,
     client |-> g.value,
     cache |-> g.value,
     settings |-> g.settings]

\* The body every tool shares: get_bigquery_client(), the client's method,
\* and the two except clauses.
tool_body(code, method, cache, settings, e, construct, outcome) ==
    tool_return(code, get_bigquery_client(cache, settings, e, construct),
                client_method(method, outcome))

execute_query(cache, settings, e, construct, outcome) ==
    tool_body("QUERY_EXECUTION_ERROR", "execute_query", cache, settings, e, construct, outcome)

list_datasets(cache, settings, e, construct, outcome) ==
    tool_body("LIST_DATASETS_ERROR", "list_datasets", cache, settings, e, construct, outcome)

get_dataset_info(cache, settings, e, construct, outcome) ==
    tool_body("GET_DATASET_INFO_ERROR", "get_dataset_info", cache, settings, e, construct, outcome)

list_tables(cache, settings, e, construct, outcome) ==
    tool_body("LIST_TABLES_ERROR", "list_tables", cache, settings, e, construct, outcome)

get_table_info(cache, settings, e, construct, outcome) ==
    tool_body("GET_TABLE_INFO_ERROR", "get_table_info", cache, settings, e, construct, outcome)

(***************************************************************************)
(* Inputs: configured secrets and presented headers.                       *)
(***************************************************************************)
\* n copies of the character c.
Repeat(c, n) == [i \in 1..n |-> c]

\* A secret Settings accepts: 32 characters, none of them whitespace.
SecretA == Repeat("k", 32)

K16 == Repeat("k", 16)

K15 == Repeat("k", 15)

\* A secret Settings accepts as well: 32 characters with a space inside.
SecretW == K16 \o <<" ">> \o K15

\* A value Settings refuses as too short.
ShortSecret == Repeat("k", 31)

\* The values BEARER_TOKEN takes in the environment (None: not set).
EnvBearerTokens == {None, Some(ShortSecret), Some(Placeholder), Some(SecretA), Some(SecretW)}

\* What GOOGLE_APPLICATION_CREDENTIALS points to.
EnvCredentials == {"file.json", "file.txt", "directory", "missing"}

\* The words presented headers are made of: schemes, the secret without
\* whitespace, and the two halves of the secret with a space inside.
Words ==
    { <<"B", "e", "a", "r", "e", "r">>,
      <<"b", "e", "a", "r", "e", "r">>,
      <<"b", "E", "A", "R", "E", "R">>,
      <<"B", "a", "s", "i", "c">>,
      SecretA, K16, K15 }

\* What stands between two words of a header: one space, or a tab and a space.
Separators == { <<" ">>, <<"\t", " ">> }

\* What stands before the first and after the last word.
Margins == { <<>>, <<" ">> }

\* The strings of exactly n words, each two joined by sep.
RECURSIVE Joined(_, _)
Joined(n, sep) ==
    IF n = 0 THEN {<<>>}
    ELSE IF n = 1 THEN Words
    ELSE {h \o sep \o w : h \in Joined(n - 1, sep), w \in Words}

\* The presented header strings: up to MaxSegments words, with optional
\* leading and trailing space.
HeaderStrings ==
    UNION { {lead \o h \o trail : h \in Joined(n, sep), lead \in Margins, trail \in Margins} :
            n \in 0..MaxSegments, sep \in Separators }

\* The values of the Authorization header: None when the request has none.
Headers == {None} \cup {Some(h) : h \in HeaderStrings}

\* The tokens validate_bearer_token is called with directly.
Tokens ==
    {None, Some(<<>>)} \cup {Some(w) : w \in Words}
        \cup {Some(SecretW), Some(ShortSecret), Some(Placeholder)}

\* The messages get_auth_error_response is called with; the first is its default.
Messages == {"Authentication required", AuthFailureMessage}

\* The values of --issuer and --audience: not given, empty, given.
OptionValues == {None, Some(<<>>), Some(<<"f">>)}

\* The values of JWT_ISSUER and JWT_AUDIENCE: not set, empty, set.
EnvironValues == {None, Some(<<>>), Some(<<"e">>)}

\* The characters --scopes values are made of.
ScopeChars == {"a", "b", ",", " "}

\* The --scopes values: every string of up to MaxScopeChars characters.
ScopeInputs == UNION {[1..n -> ScopeChars] : n \in 0..MaxScopeChars}

\* The values of --token-file, a path by its parts; None when generate_token
\* is called without one.
TokenFiles == {None, Some(<<"credentials", "token.txt">>)}

\* The default of --subject.
DefaultSubject == "ProjectMCP"

\* The lifetimes a caller of generate_token may want its token to have.
WantedLifetimes == {3600, TwoYears}

\* How far read_text and load_pem_private_key get.
ReadOutcomes == {"read", "read failed"}

LoadOutcomes == {"loaded", "load failed"}

\* How far mkdir and write_text get on one file.
SaveOutcomes == {"saved", "mkdir failed", "open failed", "write failed"}

\* How bigquery.Client(...) ends: the client, or an exception.
ConstructOutcomes == {"constructed", "DefaultCredentialsError"}

\* How the BigQuery request of a client method ends: the result, a
\* GoogleCloudError, or another exception.
ClientOutcomes == {"result", "GoogleCloudError", "Exception"}

\* The request handlers that may be inside get_settings() at once.
Threads == 1..NumHandlers

(***************************************************************************)
(* The state machine.                                                      *)
(***************************************************************************)
NoCall ==
    [op |-> "none", header |-> None, raised |-> NoExc, message |-> "",
     token |-> None, ok |-> FALSE, body_executed |-> FALSE,
     response |-> NoResponse, log |-> <<>>]

\* No tool call is under way.
NoTool ==
    [op |-> "none", raised |-> NoExc, returned |-> NoReturn, caught |-> NoExc,
     obtained |-> FALSE, client_result |-> NoResult, attempted |-> FALSE,
     client |-> NoClient]

\* A handler outside get_settings().
IdleHandler == [pc |-> "idle", got |-> 0, bearer_token |-> <<>>]

\* No Settings instance was made.
NoInstances == [constructed |-> 0, cached |-> 0, configured |-> 0]

\* No command of the script runs.
NoScript ==
    [cmd |-> "none", pc |-> "none", exited |-> FALSE, exit_code |-> 0, out |-> <<>>,
     files |-> [public_key_file |-> "untouched", private_key_file |-> "untouched",
                token_file |-> "untouched"],
     private_key_pem |-> FALSE, key_pair |-> FALSE,
     issuer |-> None, audience |-> None,
     environ |-> [JWT_ISSUER |-> None, JWT_AUDIENCE |-> None],
     jwt_issuer |-> None, jwt_audience |-> None, scopes |-> <<>>,
     wanted_lifetime |-> 0, test_token |-> NoToken, token_file |-> None]

\* The process is the server, about to import the package, or a run of one
\* command of the script, which reads neither variable of env.
Init ==
    /\ _settings = NoSettings
    /\ call = NoCall
    /\ instances = NoInstances
    /\ handlers = [t \in Threads |-> IdleHandler]
    /\ _client = NoClient
    /\ tool = NoTool
    /\ \/ /\ phase = "importing"
          /\ env \in [BEARER_TOKEN : EnvBearerTokens,
                      GOOGLE_APPLICATION_CREDENTIALS : EnvCredentials]
          /\ script = NoScript
       \/ /\ phase = "script"
          /\ env = [BEARER_TOKEN |-> None, GOOGLE_APPLICATION_CREDENTIALS |-> "missing"]
          /\ script \in {[NoScript EXCEPT !.cmd = "generate_keys", !.pc = "generate"],
                         [NoScript EXCEPT !.cmd = "generate_token", !.pc = "read_key"]}

\* An import of the package that loads no settings.
ImportPackage_lazy ==
    /\ phase = "importing"
    /\ phase' = "serving"
    /\ UNCHANGED <<env, _settings, call, instances, handlers, _client, tool, script>>

\* Importing the package runs server.py, which calls get_settings() and lets
\* a failure end the import: auth.py is reachable only after a successful load.
ImportPackage ==
    /\ phase = "importing"
    /\ LET g == get_settings(_settings, env) IN
       /\ _settings' = g.cache
       /\ phase' = IF g.raised = NoExc THEN "serving" ELSE "import_failed"
       /\ instances' = IF g.raised = NoExc
                        THEN [constructed |-> 1, cached |-> 1, configured |-> 1]
                        ELSE instances
    /\ UNCHANGED <<env, call, handlers, _client, tool, script>>

\* A call of extract_bearer_token(h).
ExtractBearerToken(h) ==
    /\ phase = "serving"
    /\ call = NoCall
    /\ LET x == extract_bearer_token(h) IN
       call' = [NoCall EXCEPT !.op = "extract_bearer_token", !.header = h,
                              !.raised = x.raised, !.token = x.token]
    /\ UNCHANGED <<env, _settings, phase, instances, handlers, _client, tool, script>>

\* A call of validate_bearer_token(t).
ValidateBearerToken(t) ==
    /\ phase = "serving"
    /\ call = NoCall
    /\ LET v == validate_bearer_token(t, _settings, env) IN
       /\ call' = [NoCall EXCEPT !.op = "validate_bearer_token", !.token = t,
                                 !.raised = v.raised, !.ok = v.ok, !.log = v.log]
       /\ _settings' = v.cache
    /\ UNCHANGED <<env, phase, instances, handlers, _client, tool, script>>

\* A call of authenticate_request(h).
AuthenticateRequest(h) ==
    /\ phase = "serving"
    /\ call = NoCall
    /\ LET a == authenticate_request(h, _settings, env) IN
       /\ call' = [NoCall EXCEPT !.op = "authenticate_request", !.header = h,
                                 !.raised = a.raised, !.message = a.message,
                                 !.ok = a.ok, !.log = a.log]
       /\ _settings' = a.cache
    /\ UNCHANGED <<env, phase, instances, handlers, _client, tool, script>>

\* A call of a require_auth-wrapped function with _auth_header = h.
WrappedCall(h) ==
    /\ phase = "serving"
    /\ call = NoCall
    /\ LET w == wrapper(h, _settings, env) IN
       /\ call' = [NoCall EXCEPT !.op = "wrapper", !.header = h,
                                 !.raised = w.raised, !.message = w.message,
                                 !.body_executed = w.body_executed,
                                 !.response = w.response, !.log = w.log]
       /\ _settings' = w.cache
    /\ UNCHANGED <<env, phase, instances, handlers, _client, tool, script>>

\* A call of get_auth_error_response(m).
GetAuthErrorResponse(m) ==
    /\ phase = "serving"
    /\ call = NoCall
    /\ call' = [NoCall EXCEPT !.op = "get_auth_error_response", !.message = m,
                              !.response = get_auth_error_response(m)]
    /\ UNCHANGED <<env, _settings, phase, instances, handlers, _client, tool, script>>

\* The caller takes the outcome of its call; the calls are synchronous, so the
\* next one starts only then.
Complete ==
    /\ phase = "serving"
    /\ call # NoCall \/ tool # NoTool
    /\ call' = NoCall
    /\ tool' = NoTool
    /\ UNCHANGED <<env, _settings, phase, instances, handlers, _client, script>>

(***************************************************************************)
(* Request handlers in get_settings(), statement by statement: the test of *)
(* _settings, the construction and its assignment, configure_logging, and  *)
(* the return of what _settings then holds.                                *)
(***************************************************************************)
GetSettingsStep(t) ==
    /\ phase = "serving"
    /\ call = NoCall
    /\ tool = NoTool
    /\ LET h == handlers[t]
           s == Settings(env)
       IN CASE h.pc = "idle" ->
                 /\ handlers' = [handlers EXCEPT ![t].pc =
                                   IF ~_settings.loaded THEN "construct" ELSE "return"]
                 /\ UNCHANGED <<_settings, instances>>
            [] h.pc = "construct" /\ s.raised = NoExc ->
                 /\ _settings' = s.value
                 /\ instances' = [instances EXCEPT !.constructed = @ + 1,
                                                   !.cached = instances.constructed + 1]
                 /\ handlers' = [handlers EXCEPT ![t].pc = "configure"]
            [] h.pc = "construct" /\ s.raised # NoExc ->
                 /\ handlers' = [handlers EXCEPT ![t].pc = "raised"]
                 /\ UNCHANGED <<_settings, instances>>
            [] h.pc = "configure" ->
                 /\ instances' = [instances EXCEPT !.configured = @ + 1]
                 /\ handlers' = [handlers EXCEPT ![t].pc = "return"]
                 /\ UNCHANGED _settings
            [] h.pc = "return" ->
                 /\ handlers' = [handlers EXCEPT ![t].pc = "returned",
                                                 ![t].got = instances.cached,
                                                 ![t].bearer_token = _settings.bearer_token]
                 /\ UNCHANGED <<_settings, instances>>
            [] OTHER ->
                 /\ handlers' = [handlers EXCEPT ![t] = IdleHandler]
                 /\ UNCHANGED <<_settings, instances>>
    /\ UNCHANGED <<env, phase, call, _client, tool, script>>

(***************************************************************************)
(* Calls of the five tools.  construct is how bigquery.Client(...) ends    *)
(* when the call has to construct the client, outcome how the BigQuery     *)
(* request of the client's method ends.                                    *)
(***************************************************************************)
\* The call of a tool that ended as r: what the caller gets, and what the
\* call left in the two module-level caches.
ToolCalled(op, r) ==
    /\ tool' = [op |-> op, raised |-> r.raised, returned |-> r.returned,
                caught |-> r.caught, obtained |-> r.obtained,
                client_result |-> r.client_result, attempted |-> r.attempted,
                client |-> r.client]
    /\ _client' = r.cache
    /\ _settings' = r.settings

ExecuteQuery(construct, outcome) ==
    /\ phase = "serving"
    /\ call = NoCall
    /\ ToolCalled("execute_query", execute_query(_client, _settings, env, construct, outcome))
    /\ UNCHANGED <<env, phase, call, instances, handlers, script>>

ListDatasets(construct, outcome) ==
    /\ phase = "serving"
    /\ call = NoCall
    /\ ToolCalled("list_datasets", list_datasets(_client, _settings, env, construct, outcome))
    /\ UNCHANGED <<env, phase, call, instances, handlers, script>>

GetDatasetInfo(construct, outcome) ==
    /\ phase = "serving"
    /\ call = NoCall
    /\ ToolCalled("get_dataset_info", get_dataset_info(_client, _settings, env, construct, outcome))
    /\ UNCHANGED <<env, phase, call, instances, handlers, script>>

ListTables(construct, outcome) ==
    /\ phase = "serving"
    /\ call = NoCall
    /\ ToolCalled("list_tables", list_tables(_client, _settings, env, construct, outcome))
    /\ UNCHANGED <<env, phase, call, instances, handlers, script>>

GetTableInfo(construct, outcome) ==
    /\ phase = "serving"
    /\ call = NoCall
    /\ ToolCalled("get_table_info", get_table_info(_client, _settings, env, construct, outcome))
    /\ UNCHANGED <<env, phase, call, instances, handlers, script>>

(***************************************************************************)
(* A run of scripts/generate_jwt_token.py, statement by statement.  The    *)
(* options and the outcomes of the file system calls are drawn where the   *)
(* run reads them.                                                         *)
(***************************************************************************)
\* generate_token: private_key_pem = private_key_file.read_text()
ReadPrivateKey(r) ==
    /\ script.cmd = "generate_token"
    /\ script.pc = "read_key"
    /\ script' =
         IF r = "read"
         THEN [script EXCEPT !.pc = "load_key", !.out = script.out \o TokenBanner,
                             !.private_key_pem = TRUE]
         ELSE Exit(script, 1, TokenBanner \o <<"Failed to read private key">>)
    /\ UNCHANGED <<env, _settings, phase, call, instances, handlers, _client, tool>>

\* The same step going on to the next one after a failure.
LoadPrivateKey_lenient(l) ==
    /\ script.cmd = "generate_token"
    /\ script.pc = "load_key"
    /\ script' =
         IF l = "loaded"
         THEN [script EXCEPT !.pc = "resolve", !.key_pair = TRUE,
                             !.out = script.out \o <<"Private key loaded">>]
         ELSE [script EXCEPT !.pc = "resolve",
                             !.out = script.out \o <<"Failed to load private key">>]
    /\ UNCHANGED <<env, _settings, phase, call, instances, handlers, _client, tool>>

\* generate_token: load_pem_private_key(...) and key_pair = RSAKeyPair(...)
LoadPrivateKey(l) ==
    /\ script.cmd = "generate_token"
    /\ script.pc = "load_key"
    /\ script' =
         IF l = "loaded"
         THEN [script EXCEPT !.pc = "resolve", !.key_pair = TRUE,
                             !.out = script.out \o <<"Private key loaded">>]
         ELSE Exit(script, 1, <<"Failed to load private key">>)
    /\ UNCHANGED <<env, _settings, phase, call, instances, handlers, _client, tool>>

\* generate_token: jwt_issuer and jwt_audience, and the two checks on them.
ResolveIssuerAudience(issuer, audience, environ) ==
    /\ script.cmd = "generate_token"
    /\ script.pc = "resolve"
    /\ LET jwt_issuer == or_getenv(issuer, environ.JWT_ISSUER)
           jwt_audience == or_getenv(audience, environ.JWT_AUDIENCE)
           s == [script EXCEPT !.issuer = issuer, !.audience = audience,
                               !.environ = environ, !.jwt_issuer = jwt_issuer,
                               !.jwt_audience = jwt_audience]
       IN script' =
            IF ~Truthy(jwt_issuer)
            THEN Exit(s, 1, <<"JWT_ISSUER not provided">>)
            ELSE IF ~Truthy(jwt_audience)
            THEN Exit(s, 1, <<"JWT_AUDIENCE not provided">>)
            ELSE [s EXCEPT !.pc = "issue",
                           !.out = s.out \o <<"JWT configuration validated">>]
    /\ UNCHANGED <<env, _settings, phase, call, instances, handlers, _client, tool>>

\* generate_token: scope_list and test_token = key_pair.create_token(...).
\* wanted is the lifetime the caller would like; no option carries it.
IssueToken(scopes, wanted) ==
    /\ script.cmd = "generate_token"
    /\ script.pc = "issue"
    /\ script' =
         [script EXCEPT !.pc = "save", !.scopes = scopes, !.wanted_lifetime = wanted,
                        !.test_token = create_token_call(DefaultSubject, script.jwt_issuer,
                                                         script.jwt_audience, scopes),
                        !.out = script.out \o <<"JWT token generated">>]
    /\ UNCHANGED <<env, _settings, phase, call, instances, handlers, _client, tool>>

\* generate_token: `if token_file:` and the write of the token file.
SaveToken(token_file, o) ==
    /\ script.cmd = "generate_token"
    /\ script.pc = "save"
    /\ ~token_file.some => o = "saved"
    /\ LET s == [script EXCEPT !.token_file = token_file] IN
       script' =
         IF ~token_file.some THEN [s EXCEPT !.pc = "display"]
         ELSE IF o = "saved"
         THEN [s EXCEPT !.pc = "display", !.files.token_file = FileAfter(@, o),
                        !.out = s.out \o <<"JWT token saved">>]
         ELSE Exit([s EXCEPT !.files.token_file = FileAfter(@, o)], 1,
                   <<"Failed to save JWT token">>)
    /\ UNCHANGED <<env, _settings, phase, call, instances, handlers, _client, tool>>

\* generate_token: the token, its details and its usage are displayed, and
\* the command returns.
DisplayToken ==
    /\ script.cmd = "generate_token"
    /\ script.pc = "display"
    /\ script' = Exit(script, 0, TokenDisplay)
    /\ UNCHANGED <<env, _settings, phase, call, instances, handlers, _client, tool>>

\* generate_keys: key_pair = RSAKeyPair.generate()
GenerateKeyPair ==
    /\ script.cmd = "generate_keys"
    /\ script.pc = "generate"
    /\ script' = [script EXCEPT !.pc = "save_public", !.key_pair = TRUE,
                                !.out = script.out \o KeysBanner]
    /\ UNCHANGED <<env, _settings, phase, call, instances, handlers, _client, tool>>

\* The same write going on to the private key after a failure.
SavePublicKey_lenient(o) ==
    /\ script.cmd = "generate_keys"
    /\ script.pc = "save_public"
    /\ script' =
         [script EXCEPT !.files.public_key_file = FileAfter(@, o),
                        !.pc = "save_private",
                        !.out = script.out \o
                                  <<IF o = "saved" THEN "Public key saved"
                                    ELSE "Failed to save public key">>]
    /\ UNCHANGED <<env, _settings, phase, call, instances, handlers, _client, tool>>

\* generate_keys: the write of the public key file.
SavePublicKey(o) ==
    /\ script.cmd = "generate_keys"
    /\ script.pc = "save_public"
    /\ LET s == [script EXCEPT !.files.public_key_file = FileAfter(@, o)] IN
       script' =
         IF o = "saved"
         THEN [s EXCEPT !.pc = "save_private",
                        !.out = s.out \o <<"Public key saved">>]
         ELSE Exit(s, 1, <<"Failed to save public key">>)
    /\ UNCHANGED <<env, _settings, phase, call, instances, handlers, _client, tool>>

\* generate_keys: the write of the private key file, and on success the
\* closing warning and the return.
SavePrivateKey(o) ==
    /\ script.cmd = "generate_keys"
    /\ script.pc = "save_private"
    /\ LET s == [script EXCEPT !.files.private_key_file = FileAfter(@, o)] IN
       script' =
         IF o = "saved"
         THEN Exit(s, 0, <<"Private key saved", "WARNING: This private key can be used to sign tokens">>)
         ELSE Exit(s, 1, <<"Failed to save private key">>)
    /\ UNCHANGED <<env, _settings, phase, call, instances, handlers, _client, tool>>

\* No call is under way: the package is imported, the last outcome taken,
\* and no handler is inside get_settings().
Ready ==
    /\ phase = "serving"
    /\ call = NoCall
    /\ tool = NoTool
    /\ \A t \in Threads : handlers[t].pc = "idle"

\* The script's run is at a statement of the given command.
Running(cmd) == phase = "script" /\ script.cmd = cmd /\ ~script.exited

Next ==
    \/ ImportPackage
    \/ Ready /\ \E h \in Headers : ExtractBearerToken(h)
    \/ Ready /\ \E t \in Tokens : ValidateBearerToken(t)
    \/ Ready /\ \E h \in Headers : AuthenticateRequest(h)
    \/ Ready /\ \E h \in Headers : WrappedCall(h)
    \/ Ready /\ \E m \in Messages : GetAuthErrorResponse(m)
    \/ Complete
    \/ \E t \in Threads : GetSettingsStep(t)
    \/ Ready /\ \E c \in ConstructOutcomes, o \in ClientOutcomes : ExecuteQuery(c, o)
    \/ Ready /\ \E c \in ConstructOutcomes, o \in ClientOutcomes : ListDatasets(c, o)
    \/ Ready /\ \E c \in ConstructOutcomes, o \in ClientOutcomes : GetDatasetInfo(c, o)
    \/ Ready /\ \E c \in ConstructOutcomes, o \in ClientOutcomes : ListTables(c, o)
    \/ Ready /\ \E c \in ConstructOutcomes, o \in ClientOutcomes : GetTableInfo(c, o)
    \/ Running("generate_token") /\ \E r \in ReadOutcomes : ReadPrivateKey(r)
    \/ Running("generate_token") /\ \E l \in LoadOutcomes : LoadPrivateKey(l)
    \/ Running("generate_token") /\
         \E i \in OptionValues, a \in OptionValues,
            e \in [JWT_ISSUER : EnvironValues, JWT_AUDIENCE : EnvironValues] :
              ResolveIssuerAudience(i, a, e)
    \/ Running("generate_token") /\
         \E s \in ScopeInputs, w \in WantedLifetimes : IssueToken(s, w)
    \/ Running("generate_token") /\
         \E f \in TokenFiles, o \in SaveOutcomes : SaveToken(f, o)
    \/ Running("generate_token") /\ DisplayToken
    \/ Running("generate_keys") /\ GenerateKeyPair
    \/ Running("generate_keys") /\ \E o \in SaveOutcomes : SavePublicKey(o)
    \/ Running("generate_keys") /\ \E o \in SaveOutcomes : SavePrivateKey(o)

Spec == Init /\ [][Next]_vars

(***************************************************************************)
(* What the claims speak of, stated without the code's own split and       *)
(* lower: the segments of a header are its maximal runs of characters that *)
(* are not whitespace.                                                     *)
(***************************************************************************)
RunStarts(s) ==
    {i \in 1..Len(s) : s[i] \notin Whitespace /\ (i = 1 \/ s[i - 1] \in Whitespace)}

RunEnds(s) ==
    {i \in 1..Len(s) : s[i] \notin Whitespace /\ (i = Len(s) \/ s[i + 1] \in Whitespace)}

Least(S) == CHOOSE x \in S : \A y \in S : x <= y

Greatest(S) == CHOOSE x \in S : \A y \in S : x >= y

\* The number of whitespace-separated segments of s.
Segments(s) == Cardinality(RunStarts(s))

FirstSegment(s) == SubSeq(s, Least(RunStarts(s)), Least(RunEnds(s)))

LastSegment(s) == SubSeq(s, Greatest(RunStarts(s)), Greatest(RunEnds(s)))

\* w is "bearer" in any mix of upper and lower case.
IsBearerWord(w) ==
    /\ Len(w) = Len(BearerScheme)
    /\ \A i \in 1..Len(w) :
          \E k \in 1..26 : LowerCase[k] = BearerScheme[i] /\ w[i] \in {LowerCase[k], UpperCase[k]}

\* h has exactly the shape "<bearer> <value>".
BearerShaped(h) ==
    /\ h.some
    /\ Segments(h.str) = 2
    /\ IsBearerWord(FirstSegment(h.str))

\* h is "<bearer> <value>" and the value is the secret s.
CarriesSecret(h, s) == BearerShaped(h) /\ LastSegment(h.str) = s

HasWhitespace(s) == \E i \in 1..Len(s) : s[i] \in Whitespace

\* The configured secret of the running process.
Secret == _settings.bearer_token

\* The header made of the scheme word, one space and the secret.
SchemeAndSecret(scheme) == Some(scheme \o <<" ">> \o Secret)

(***************************************************************************)
(* C1.  A function wrapped with require_auth runs only for calls that      *)
(* authenticated: when the header is missing, empty or fails               *)
(* authenticate_request, the body is never executed.                       *)
(* The code skips authentication for a missing or empty header.            *)
(***************************************************************************)
C1_BodyOnlyWhenAuthenticated ==
    (call.op = "wrapper" /\ call.body_executed)
        => (Truthy(call.header) /\ CarriesSecret(call.header, Secret))

(***************************************************************************)
(* C2.  A request-time authentication failure is turned, at the boundary,  *)
(* into the response {error: {code: "UNAUTHORIZED", message}}; no          *)
(* AuthenticationError leaves a require_auth-wrapped call.                 *)
(* The wrapper logs the error and raises it again.                         *)
(***************************************************************************)
C2_FailureBecomesResponse ==
    (call.op = "wrapper" /\ Truthy(call.header) /\ ~CarriesSecret(call.header, Secret))
        => /\ call.raised = NoExc
           /\ ~call.body_executed
           /\ call.response = get_auth_error_response(AuthFailureMessage)

(***************************************************************************)
(* C3.  Bearer validation (extract_bearer_token, then                      *)
(* validate_bearer_token) is true exactly when the header splits on        *)
(* whitespace into two parts, the first "bearer" in any case, the second   *)
(* the configured secret.                                                  *)
(***************************************************************************)
\* The equivalence, with "Basic s" and None giving false.
C3_ValidIffShape ==
    call.op = "authenticate_request"
        => /\ call.ok <=> CarriesSecret(call.header, Secret)
           /\ call.header = SchemeAndSecret(<<"B", "a", "s", "i", "c">>) => ~call.ok
           /\ call.header = None => ~call.ok

\* "Bearer s" and "bearer s" give true.
C3_SchemeAndSecretValid ==
    (/\ call.op = "authenticate_request"
     /\ call.header \in {SchemeAndSecret(<<"B", "e", "a", "r", "e", "r">>),
                         SchemeAndSecret(<<"b", "e", "a", "r", "e", "r">>)})
        => call.ok

\* C3 as claimed: the equivalence, and in particular "Bearer s" and
\* "bearer s" give true for every configured secret s.
C3_AsClaimed == C3_ValidIffShape /\ C3_SchemeAndSecretValid

\* C3 as amended: the equivalence, and "Bearer s" and "bearer s" give true
\* for every configured secret s that holds no whitespace.
C3_BearerValidation ==
    /\ C3_ValidIffShape
    /\ ~HasWhitespace(Secret) => C3_SchemeAndSecretValid

\* A header of mixed-case scheme, a tab and a space, and the secret was accepted.
C3_Witness ==
    /\ call.op = "authenticate_request"
    /\ call.header = Some(<<"b", "E", "A", "R", "E", "R">> \o <<"\t", " ">> \o Secret)
    /\ call.ok

(***************************************************************************)
(* C4.  extract_bearer_token never raises: a header of exactly the shape   *)
(* "<bearer> <value>" yields the value unchanged, and a missing or empty   *)
(* header, another scheme, or fewer or more than two segments yields None. *)
(***************************************************************************)
C4_ExtractTotal ==
    call.op = "extract_bearer_token"
        => /\ call.raised = NoExc
           /\ call.token = IF BearerShaped(call.header)
                           THEN Some(LastSegment(call.header.str))
                           ELSE None

\* A header of three segments, the first of them "Bearer", gave None.
C4_Witness ==
    /\ call.op = "extract_bearer_token"
    /\ call.header.some
    /\ Segments(call.header.str) = 3
    /\ IsBearerWord(FirstSegment(call.header.str))
    /\ call.raised = NoExc
    /\ call.token = None

(***************************************************************************)
(* C5.  authenticate_request has two outcomes: True when bearer validation *)
(* is true, and otherwise AuthenticationError with one fixed message,      *)
(* whichever check failed.                                                 *)
(***************************************************************************)
C5_TwoOutcomes ==
    call.op = "authenticate_request"
        => IF CarriesSecret(call.header, Secret)
           THEN call.raised = NoExc /\ call.ok
           ELSE /\ call.raised = "AuthenticationError"
                /\ ~call.ok
                /\ call.message = AuthFailureMessage

\* A well-formed bearer header with a wrong secret was refused with the
\* message a missing header gets.
C5_Witness ==
    /\ call.op = "authenticate_request"
    /\ BearerShaped(call.header)
    /\ LastSegment(call.header.str) # Secret
    /\ call.raised = "AuthenticationError"
    /\ call.message = AuthFailureMessage

(***************************************************************************)
(* Claims about the provisioning script.                                   *)
(***************************************************************************)
\* generate_token has issued its token.
Issued == script.cmd = "generate_token" /\ script.test_token.made

(***************************************************************************)
(* C11.  As stated: the lifetime of every issued token is the one its      *)
(* caller specified, and it is positive.                                   *)
(***************************************************************************)
C11_AsClaimed ==
    Issued => /\ script.test_token.expires_in_seconds = script.wanted_lifetime
              /\ script.test_token.expires_in_seconds > 0

(***************************************************************************)
(* C11.  Every token generate_token issues is asked for with the one       *)
(* lifetime of 3600 * 24 * 730 seconds, which is positive, whatever        *)
(* lifetime its caller wants.                                              *)
(***************************************************************************)
C11_FixedLifetime ==
    Issued => /\ script.test_token.expires_in_seconds = 3600 * 24 * 730
              /\ script.test_token.expires_in_seconds > 0

\* A token was issued for a caller who wanted an hour, with two years.
C11_Witness ==
    /\ Issued
    /\ script.wanted_lifetime = 3600
    /\ script.test_token.expires_in_seconds = TwoYears

\* The comma-separated pieces of the --scopes value, each without the
\* whitespace around it.
Pieces == Stripped(split_comma(script.scopes))

\* The place of the first piece that is x.
FirstAt(x) == Least({k \in 1..Len(Pieces) : Pieces[k] = x})

(***************************************************************************)
(* C12.  The scope list handed to the issuer has every entry trimmed and   *)
(* non-empty, holds no entry twice, holds exactly the non-empty pieces of  *)
(* the --scopes value, and keeps them in the order they first appear in.   *)
(***************************************************************************)
C12_ScopesFormASet ==
    Issued =>
      LET list == script.test_token.scopes IN
      /\ \A i \in 1..Len(list) : list[i] # <<>> /\ strip(list[i]) = list[i]
      /\ \A i, j \in 1..Len(list) : i # j => list[i] # list[j]
      /\ {list[i] : i \in 1..Len(list)} = {Pieces[k] : k \in 1..Len(Pieces)} \ {<<>>}
      /\ \A i, j \in 1..Len(list) : i < j => FirstAt(list[i]) < FirstAt(list[j])

\* The script has echoed the line.
Said(line) == \E i \in 1..Len(script.out) : script.out[i] = line

\* generate_token is past the checks of issuer and audience.
Resolved ==
    /\ script.cmd = "generate_token"
    /\ \/ Said("JWT configuration validated")
       \/ Said("JWT_ISSUER not provided")
       \/ Said("JWT_AUDIENCE not provided")

\* The flag when it is given and non-empty, otherwise the variable.
FlagElseVariable(flag, variable) ==
    IF flag.some /\ Len(flag.str) > 0 THEN flag ELSE variable

\* The value is missing or empty.
Missing(o) == ~o.some \/ Len(o.str) = 0

(***************************************************************************)
(* C13.  In generate_token the issuer and the audience are each the flag   *)
(* when it is given and non-empty, otherwise the environment variable;     *)
(* when either is then missing or empty the command has exited with a      *)
(* non-zero code and no token was created, written or displayed, and       *)
(* otherwise the run went on.                                              *)
(***************************************************************************)
C13_IssuerAudienceResolved ==
    Resolved =>
      /\ script.jwt_issuer = FlagElseVariable(script.issuer, script.environ.JWT_ISSUER)
      /\ script.jwt_audience = FlagElseVariable(script.audience, script.environ.JWT_AUDIENCE)
      /\ IF Missing(script.jwt_issuer) \/ Missing(script.jwt_audience)
         THEN /\ script.exited
              /\ script.exit_code # 0
              /\ ~script.test_token.made
              /\ script.files.token_file = "untouched"
              /\ ~Said("JWT token generated")
              /\ ~Said("JWT TOKEN:")
         ELSE Said("JWT configuration validated")

\* The issuer came from JWT_ISSUER because --issuer was empty, the audience
\* was set nowhere, and the command exited with code 1.
C13_Witness ==
    /\ Resolved
    /\ script.issuer = Some(<<>>)
    /\ script.jwt_issuer = script.environ.JWT_ISSUER
    /\ ~Missing(script.jwt_issuer)
    /\ Missing(script.jwt_audience)
    /\ script.exited
    /\ script.exit_code = 1

\* The place of the line in what the script has echoed; 0 when it has not.
SaidAt(line) ==
    IF Said(line) THEN Least({i \in 1..Len(script.out) : script.out[i] = line}) ELSE 0

\* The lines generate_token echoes when a file or key step fails.
TokenFailures ==
    {"Failed to read private key", "Failed to load private key", "Failed to save JWT token"}

\* A file or key step of generate_token has failed.
TokenStepFailed ==
    /\ script.cmd = "generate_token"
    /\ \E line \in TokenFailures : Said(line)

\* After a failed step: exit code 1, the failure line is the last output,
\* and nothing a later step does is there.
FailedStepEndsRun ==
    TokenStepFailed =>
      /\ script.exited
      /\ script.exit_code = 1
      /\ script.out[Len(script.out)] \in TokenFailures
      /\ ~Said("JWT TOKEN:")
      /\ Said("Failed to read private key") =>
            ~script.key_pair /\ ~Said("Private key loaded")
      /\ Said("Failed to read private key") \/ Said("Failed to load private key") =>
            /\ ~Resolved
            /\ ~script.test_token.made
            /\ script.files.token_file = "untouched"
      /\ Said("Failed to save JWT token") => script.files.token_file # "written"

\* A token is signed only after the key was read and parsed and issuer and
\* audience were resolved.
SignedAfterKeyAndResolution ==
    Issued =>
      /\ script.private_key_pem
      /\ script.key_pair
      /\ ~Missing(script.jwt_issuer)
      /\ ~Missing(script.jwt_audience)
      /\ 0 < SaidAt("Private key loaded")
      /\ SaidAt("Private key loaded") < SaidAt("JWT configuration validated")
      /\ SaidAt("JWT configuration validated") < SaidAt("JWT token generated")

\* The token is displayed only after it was signed and, when a token file
\* is requested, written to it.
DisplayedAfterSave ==
    script.cmd = "generate_token" /\ Said("JWT TOKEN:") =>
      /\ script.test_token.made
      /\ script.token_file.some =>
            /\ script.files.token_file = "written"
            /\ 0 < SaidAt("JWT token saved")
            /\ SaidAt("JWT token saved") < SaidAt("JWT TOKEN:")

(***************************************************************************)
(* C14.  In generate_token a failure to read the private key, to parse it  *)
(* or to write the token file ends the run with code 1 at that step; a     *)
(* token is signed only after the key was read and parsed and issuer and   *)
(* audience were resolved, and displayed only after the write of a         *)
(* requested token file succeeded; and once the command has exited no      *)
(* step runs.                                                              *)
(***************************************************************************)
C14_FailureIsTerminal ==
    /\ [](FailedStepEndsRun /\ SignedAfterKeyAndResolution /\ DisplayedAfterSave)
    /\ [][script.exited => script' = script]_vars

\* The token was signed, the write of the requested token file failed, and
\* the command exited with code 1 without displaying the token.
C14_Witness ==
    /\ Issued
    /\ script.token_file.some
    /\ Said("Failed to save JWT token")
    /\ script.exited
    /\ script.exit_code = 1
    /\ ~Said("JWT TOKEN:")

\* The lines generate_keys echoes when a write fails.
KeysFailures == {"Failed to save public key", "Failed to save private key"}

\* The closing warning of generate_keys.
KeysWarning == "WARNING: This private key can be used to sign tokens"

\* After a failed write of generate_keys: exit code 1, the failure line is
\* the last output, and no later file was touched nor later line echoed.
FailedWriteEndsRun ==
    script.cmd = "generate_keys" /\ (\E line \in KeysFailures : Said(line)) =>
      /\ script.exited
      /\ script.exit_code = 1
      /\ script.out[Len(script.out)] \in KeysFailures
      /\ ~Said("Private key saved")
      /\ ~Said(KeysWarning)
      /\ Said("Failed to save public key") =>
            /\ script.files.public_key_file # "written"
            /\ script.files.private_key_file = "untouched"
            /\ ~Said("Public key saved")
            /\ ~Said("Failed to save private key")
      /\ Said("Failed to save private key") =>
            script.files.private_key_file # "written"

(***************************************************************************)
(* C15.  generate_keys is fail-fast: when creating a parent directory or   *)
(* writing either key file fails, the command exits with code 1 at that    *)
(* write, no further file is written and no success or warning line of a   *)
(* later step is echoed; once it has exited no step runs.                  *)
(***************************************************************************)
C15_KeysFailFast ==
    /\ []FailedWriteEndsRun
    /\ [][script.cmd = "generate_keys" /\ script.exited => UNCHANGED script]_vars

\* Creating the parent directory of the public key file failed: the command
\* exited with code 1 and the private key file was not touched.
C15_Witness ==
    /\ script.cmd = "generate_keys"
    /\ script.out = KeysBanner \o <<"Failed to save public key">>
    /\ script.files.public_key_file = "untouched"
    /\ script.files.private_key_file = "untouched"
    /\ script.exited
    /\ script.exit_code = 1

\* The file holds the key this run generated for it.
HoldsNewKey(file) == script.files[file] = "written"

(***************************************************************************)
(* C18.  Whenever generate_keys ends, either both key files hold the newly *)
(* generated pair or neither does: it never ends with the new key in       *)
(* exactly one of the two files.                                           *)
(***************************************************************************)
C18_KeysStoredTogether ==
    script.cmd = "generate_keys" /\ script.exited =>
      HoldsNewKey("public_key_file") = HoldsNewKey("private_key_file")

(***************************************************************************)
(* Claims about the settings and the tools of the server.                  *)
(***************************************************************************)
\* The handlers whose call of get_settings() has returned.
ReturnedHandlers == {t \in Threads : handlers[t].pc = "returned"}

\* Settings was constructed, and logging configured, at most once, and
\* every call that returned got the one instance and its secret.
OneSettingsInstance ==
    /\ instances.constructed <= 1
    /\ instances.configured <= 1
    /\ \A t \in ReturnedHandlers :
          /\ handlers[t].got = 1
          /\ handlers[t].got = instances.cached
          /\ handlers[t].bearer_token = _settings.bearer_token
    /\ \A t, u \in ReturnedHandlers : handlers[t].got = handlers[u].got

(***************************************************************************)
(* C16.  Over every interleaving of get_settings calls by concurrent       *)
(* request handlers, Settings is constructed and logging configured at     *)
(* most once, every call returns that one instance, and once settings are  *)
(* loaded the cached instance and its bearer secret never change.          *)
(***************************************************************************)
C16_SettingsLoadedOnce ==
    /\ []OneSettingsInstance
    /\ [][_settings.loaded => /\ _settings'.loaded
                              /\ _settings'.bearer_token = _settings.bearer_token
                              /\ instances'.cached = instances.cached]_vars

\* Two handlers were inside get_settings() together and both returned the
\* instance made at import.
C16_Witness ==
    /\ Cardinality(ReturnedHandlers) >= 2
    /\ \A t \in ReturnedHandlers : handlers[t].got = 1
    /\ instances.constructed = 1
    /\ instances.configured = 1

\* The step is a call of authenticate_request or validate_bearer_token.
ValidationStep ==
    /\ call.op = "none"
    /\ call'.op \in {"authenticate_request", "validate_bearer_token"}

(***************************************************************************)
(* C17.  A call of authenticate_request or validate_bearer_token leaves    *)
(* the module-level state, the cached settings instance included, as it    *)
(* was, and its result is a function of the configured secret and of the   *)
(* header or token presented.                                              *)
(***************************************************************************)
C17_ValidationHasNoEffect ==
    /\ [][ValidationStep => /\ _settings' = _settings
                            /\ instances' = instances
                            /\ _client' = _client
                            /\ env' = env
                            /\ phase' = phase]_vars
    /\ [](call.op = "authenticate_request" =>
            /\ call.ok = CarriesSecret(call.header, Secret)
            /\ (call.raised = NoExc) = call.ok)
    /\ [](call.op = "validate_bearer_token" =>
            /\ call.ok = (call.token = Some(Secret))
            /\ call.raised = NoExc)

\* A request was accepted and the cached settings are the loaded ones.
C17_Witness ==
    /\ call.op = "authenticate_request"
    /\ call.ok
    /\ _settings.loaded
    /\ instances.constructed = 1
    /\ instances.cached = 1

\* The error code of each tool.
OwnCode(op) ==
    CASE op = "execute_query" -> "QUERY_EXECUTION_ERROR"
      [] op = "list_datasets" -> "LIST_DATASETS_ERROR"
      [] op = "get_dataset_info" -> "GET_DATASET_INFO_ERROR"
      [] op = "list_tables" -> "LIST_TABLES_ERROR"
      [] op = "get_table_info" -> "GET_TABLE_INFO_ERROR"

\* The tool returned what the client's method returned.
ReturnedResult ==
    /\ tool.returned.kind = "result"
    /\ tool.obtained
    /\ tool.returned.result = tool.client_result
    /\ tool.returned.result = [of |-> tool.op]

\* The tool returned {error: {code, message}} with the given code.
ReturnedError(code) ==
    /\ tool.returned.kind = "error"
    /\ tool.returned.code = code
    /\ tool.returned.message # <<>>

(***************************************************************************)
(* C19.  As stated: no tool raises; it returns the client's result, or an  *)
(* error whose code is the tool's own when a BigQueryClientError occurred  *)
(* and INTERNAL_ERROR for any other exception, a failure to obtain the     *)
(* client included.                                                        *)
(***************************************************************************)
C19_AsClaimed ==
    tool.op # "none" =>
      /\ tool.raised = NoExc
      /\ IF ~tool.obtained THEN ReturnedError("INTERNAL_ERROR")
         ELSE IF tool.caught = "BigQueryClientError" THEN ReturnedError(OwnCode(tool.op))
         ELSE IF tool.caught # NoExc THEN ReturnedError("INTERNAL_ERROR")
         ELSE ReturnedResult

(***************************************************************************)
(* C19.  No tool raises; it returns the client's result unchanged, or an   *)
(* error whose code is the tool's own exactly when a BigQueryClientError   *)
(* occurred and INTERNAL_ERROR for any other exception; a failure to       *)
(* obtain the client is a BigQueryClientError and gives the tool's own     *)
(* code.                                                                   *)
(***************************************************************************)
C19_ToolsNeverRaise ==
    tool.op # "none" =>
      /\ tool.raised = NoExc
      /\ IF tool.caught = "BigQueryClientError" THEN ReturnedError(OwnCode(tool.op))
         ELSE IF tool.caught # NoExc THEN ReturnedError("INTERNAL_ERROR")
         ELSE ReturnedResult
      /\ ~tool.obtained =>
            /\ tool.caught = "BigQueryClientError"
            /\ ReturnedError(OwnCode(tool.op))
            /\ ~_client.made

\* list_tables could not obtain the client and returned LIST_TABLES_ERROR.
C19_Witness ==
    /\ tool.op = "list_tables"
    /\ ~tool.obtained
    /\ tool.returned.kind = "error"
    /\ tool.returned.code = "LIST_TABLES_ERROR"
    /\ tool.returned.message = <<"Failed to initialize BigQuery client: ", "DefaultCredentialsError">>

(***************************************************************************)
(* C20.  Under a Settings instance that passed validation, the configured  *)
(* secret is at least 32 characters long and not the example value, and    *)
(* validate_bearer_token accepts no token shorter than 32 characters and   *)
(* no token equal to the example value.                                    *)
(***************************************************************************)
C20_NoWeakTokenAccepted ==
    /\ _settings.loaded =>
          /\ Len(_settings.bearer_token) >= 32
          /\ _settings.bearer_token # Placeholder
    /\ call.op = "validate_bearer_token" /\ call.ok =>
          /\ _settings.loaded
          /\ Len(call.token.str) >= 32
          /\ call.token.str # Placeholder

\* A token of 31 characters and the example value were presented under
\* loaded settings; this one was refused.
C20_Witness ==
    /\ _settings.loaded
    /\ call.op = "validate_bearer_token"
    /\ call.token \in {Some(ShortSecret), Some(Placeholder)}
    /\ call.raised = NoExc
    /\ ~call.ok

\* The step is a call of one of the five tools, each of which starts with
\* get_bigquery_client().
ClientCallStep == tool.op = "none" /\ tool'.op # "none"

(***************************************************************************)
(* C21.  get_bigquery_client caches only a successfully constructed        *)
(* client: a call made while none is cached attempts the construction,     *)
(* and leaves the cache unset when it fails and set when it succeeds; a    *)
(* call made once a client is cached returns that instance, constructs     *)
(* none and leaves the cache as it is.                                     *)
(***************************************************************************)
C21_OnlySuccessIsCached ==
    [][ClientCallStep =>
          IF _client.made
          THEN /\ ~tool'.attempted
               /\ tool'.obtained
               /\ tool'.client = _client
               /\ _client' = _client
          ELSE /\ tool'.attempted
               /\ _client'.made = tool'.obtained
               /\ tool'.client = _client'
               /\ ~tool'.obtained => _client' = _client]_vars

\* A call found the client an earlier call had cached, and constructed none.
C21_Witness ==
    /\ tool.op # "none"
    /\ ~tool.attempted
    /\ tool.obtained
    /\ tool.client = TheClient
    /\ _client = TheClient

====
